---- MODULE Spec2Model ----
(***************************************************************************)
(* State-machine models of the engines under data_structures/, one         *)
(* specification per engine:                                               *)
(*   SpecBTree  b_tree.py, class BTree: insert, read and delete on a tree  *)
(*              of Node objects.  A Node is the record [keys, children,    *)
(*              leaf]; Python lists are TLA+ sequences, read with 0-based  *)
(*              indices through the helpers below.  An exception leaves    *)
(*              behind whatever the call had already written: every delete *)
(*              operator returns the node as mutated so far with the error.*)
(*   SpecRB     red_black_tree.py, class RedBlackTree: insert, read and    *)
(*              delete on a heap of Node objects linked by left, right and *)
(*              parent references, with the sentinel self.NIL.             *)
(*   SpecXL     xor_linked_list.py, class XORLinkedList: insert, read and  *)
(*              delete on Node objects that hold the XOR of the addresses  *)
(*              of their neighbours.  A dereference of an address where no *)
(*              referenced Node lives is undefined behaviour: the call may *)
(*              kill the process or end with what it has written so far.   *)
(* Each specification leaves the variables of the other engines at their   *)
(* initial values.                                                         *)
(***************************************************************************)
EXTENDS Integers, Sequences, FiniteSets

\* Largest minimum degree t explored (BTree(t) is built for each t in 2..MaxT).
MaxT == 3

\* The keys the callers draw from: those of the BTree(t=3) scenario.
Keys == {5, 6, 7, 10, 12, 17, 20, 30}

VARIABLES
    t,      \* BTree.t, the minimum degree
    root,   \* BTree.root, the node graph as a nested record
    live,   \* history: keys inserted and not successfully deleted since
    last,   \* history: the last insert or delete call, [op, outcome, held]
    hist,   \* history: "inserts" (only inserts so far), "clean" (inserts and
            \* successful deletes), "any" (some delete has failed)
    scen    \* history: how many steps of Scenario the calls so far have
            \* followed exactly (-1 once they have left it)

VARIABLES
    rbt,    \* the RedBlackTree object: [root, nodes], nodes the heap of Node
            \* objects by identity, the sentinel self.NIL included
    rblive, \* history: keys inserted and not successfully deleted since
    rblast, \* history: the last insert or delete call, [op, outcome]
    rbscen  \* history: how many steps of RBScenario the calls so far have
            \* followed exactly (-1 once they have left it)

VARIABLES
    xl,     \* the XORLinkedList object: [head, tail, nodes, keep], nodes the
            \* referenced Node objects by address, keep the list _nodes
    xlast,  \* history: the last call, [op, outcome]
    xseq    \* history: the nodes inserted and not deleted since, in the
            \* order the positions of their insert calls put them

btVars == <<t, root, live, last, hist, scen>>
rbVars == <<rbt, rblive, rblast, rbscen>>
xlVars == <<xl, xlast, xseq>>
vars == <<btVars, rbVars, xlVars>>

----------------------------------------------------------------------------
(* Python list operations, on 0-based indices                              *)

Min(S) == CHOOSE m \in S : \A n \in S : m <= n
Max(S) == CHOOSE m \in S : \A n \in S : m >= n

\* s[i] for 0 <= i < len(s)
At(s, i) == s[i + 1]
\* s[-1]
Last(s) == s[Len(s)]
\* s[a:] and s[:b] for a, b >= 0 (a slice never raises; it truncates)
SliceFrom(s, a) == SubSeq(s, a + 1, Len(s))
SliceTo(s, b) == SubSeq(s, 1, IF b < Len(s) THEN b ELSE Len(s))
\* s.insert(i, e) for 0 <= i <= len(s)
InsertAt(s, i, e) == SubSeq(s, 1, i) \o <<e>> \o SubSeq(s, i + 1, Len(s))
\* s.pop(i) for 0 <= i < len(s): the list that is left
RemoveAt(s, i) == SubSeq(s, 1, i) \o SubSeq(s, i + 2, Len(s))
\* s[i] = e
SetAt(s, i, e) == [s EXCEPT ![i + 1] = e]

\* i = 0; while i < len(keys) and k > keys[i]: i += 1
ScanUp(keys, k) ==
    LET S == {j \in 1..Len(keys) : ~(k > keys[j])}
    IN  IF S = {} THEN Len(keys) ELSE Min(S) - 1

\* i = len(keys) - 1; while i >= 0 and k < keys[i]: i -= 1
ScanDown(keys, k) ==
    LET S == {j \in 1..Len(keys) : ~(k < keys[j])}
    IN  IF S = {} THEN -1 ELSE Max(S) - 1

----------------------------------------------------------------------------
(* class Node                                                              *)

Node(leaf) == [keys |-> <<>>, children |-> <<>>, leaf |-> leaf]

----------------------------------------------------------------------------
(* BTree._split_child(x, i): returns x as rewritten                        *)

\* _split_child with the new sibling built as Node(): always flagged a leaf
SplitChildLeafSibling(x, i) ==
    LET y == At(x.children, i)
        z == [keys     |-> SliceFrom(y.keys, t),
              children |-> IF ~y.leaf THEN SliceFrom(y.children, t) ELSE <<>>,
              leaf     |-> TRUE]
        ycut == SliceTo(y.keys, t - 1)
        y2 == [keys     |-> SliceTo(ycut, Len(ycut) - 1),
               children |-> IF ~y.leaf THEN SliceTo(y.children, t) ELSE y.children,
               leaf     |-> y.leaf]
    IN  [x EXCEPT !.keys = InsertAt(x.keys, i, Last(ycut)),
                  !.children = InsertAt(SetAt(x.children, i, y2), i + 1, z)]

SplitChild(x, i) ==
    LET y == At(x.children, i)
        z == [keys     |-> SliceFrom(y.keys, t),
              children |-> IF ~y.leaf THEN SliceFrom(y.children, t) ELSE <<>>,
              leaf     |-> y.leaf]
        ycut == SliceTo(y.keys, t - 1)
        y2 == [keys     |-> SliceTo(ycut, Len(ycut) - 1),
               children |-> IF ~y.leaf THEN SliceTo(y.children, t) ELSE y.children,
               leaf     |-> y.leaf]
    IN  [x EXCEPT !.keys = InsertAt(x.keys, i, Last(ycut)),
                  !.children = InsertAt(SetAt(x.children, i, y2), i + 1, z)]

(* BTree._insert_non_full(x, k): returns x as rewritten                    *)

RECURSIVE InsertNonFull(_, _)
InsertNonFull(x, k) ==
    LET i0 == ScanDown(x.keys, k)
    IN  IF x.leaf
        THEN [x EXCEPT !.keys = InsertAt(x.keys, i0 + 1, k)]
        ELSE LET i1 == i0 + 1
                 full == Len(At(x.children, i1).keys) = (2 * t) - 1
                 x1 == IF full THEN SplitChild(x, i1) ELSE x
                 i2 == IF full /\ k > At(x1.keys, i1) THEN i1 + 1 ELSE i1
             IN  [x1 EXCEPT !.children =
                     SetAt(x1.children, i2, InsertNonFull(At(x1.children, i2), k))]

(* BTree.insert(k): returns the new root                                   *)

BInsert(r, k) ==
    IF Len(r.keys) = (2 * t) - 1
    THEN LET new_root == [Node(FALSE) EXCEPT !.children = <<r>>]
         IN  InsertNonFull(SplitChild(new_root, 0), k)
    ELSE InsertNonFull(r, k)

----------------------------------------------------------------------------
(* BTree._search(x, k): <<>> for None, <<node, index>> when found          *)

RECURSIVE Search(_, _)
Search(x, k) ==
    LET i == ScanUp(x.keys, k)
    IN  IF i < Len(x.keys) /\ k = At(x.keys, i) THEN <<x, i>>
        ELSE IF x.leaf THEN <<>>
        ELSE Search(At(x.children, i), k)

(* BTree.read(k)                                                           *)

BRead(r, k) == Search(r, k) # <<>>

----------------------------------------------------------------------------
(* Deletion.  A delete operator returns [node, err, newroot]: the node it   *)
(* was called on as rewritten so far, the exception raised ("none",         *)
(* "ValueError", "IndexError"), and <<n>> when self.root was reassigned     *)
(* below this call (n is that node's final value), <<>> otherwise.  isRoot  *)
(* says that the node the call is on is self.root (x == self.root compares  *)
(* identities: Node defines no __eq__).                                     *)

Result(n, e, nr) == [node |-> n, err |-> e, newroot |-> nr]

(* BTree._get_predecessor(x, i): <<key>>, or <<>> for the IndexError of     *)
(* curr.keys[-1] on an empty leaf                                           *)

RECURSIVE RightmostKey(_)
RightmostKey(curr) ==
    IF ~curr.leaf
    THEN IF curr.children = <<>> THEN <<>> ELSE RightmostKey(Last(curr.children))
    ELSE IF curr.keys = <<>> THEN <<>> ELSE <<Last(curr.keys)>>

GetPredecessor(x, i) == RightmostKey(At(x.children, i))

(* BTree._get_successor(x, i): <<key>>, or <<>> for the IndexError of       *)
(* curr.keys[0] on an empty leaf                                            *)

RECURSIVE LeftmostKey(_)
LeftmostKey(curr) ==
    IF ~curr.leaf
    THEN IF curr.children = <<>> THEN <<>> ELSE LeftmostKey(At(curr.children, 0))
    ELSE IF curr.keys = <<>> THEN <<>> ELSE <<At(curr.keys, 0)>>

GetSuccessor(x, i) == LeftmostKey(At(x.children, i + 1))

(* BTree._borrow_from_prev(x, i): returns x as rewritten                    *)

BorrowFromPrev(x, i) ==
    LET child == At(x.children, i)
        sibling == At(x.children, i - 1)
        child2 == [child EXCEPT
                     !.keys = InsertAt(child.keys, 0, At(x.keys, i - 1)),
                     !.children = IF ~child.leaf
                                  THEN InsertAt(child.children, 0, Last(sibling.children))
                                  ELSE child.children]
        sibling2 == [sibling EXCEPT
                       !.keys = SliceTo(sibling.keys, Len(sibling.keys) - 1),
                       !.children = IF ~child.leaf
                                    THEN SliceTo(sibling.children, Len(sibling.children) - 1)
                                    ELSE sibling.children]
    IN  [x EXCEPT !.keys = SetAt(x.keys, i - 1, Last(sibling.keys)),
                  !.children = SetAt(SetAt(x.children, i, child2), i - 1, sibling2)]

(* BTree._borrow_from_next(x, i): returns x as rewritten                    *)

BorrowFromNext(x, i) ==
    LET child == At(x.children, i)
        sibling == At(x.children, i + 1)
        child2 == [child EXCEPT
                     !.keys = Append(child.keys, At(x.keys, i)),
                     !.children = IF ~child.leaf
                                  THEN Append(child.children, At(sibling.children, 0))
                                  ELSE child.children]
        sibling2 == [sibling EXCEPT
                       !.keys = RemoveAt(sibling.keys, 0),
                       !.children = IF ~child.leaf
                                    THEN RemoveAt(sibling.children, 0)
                                    ELSE sibling.children]
    IN  [x EXCEPT !.keys = SetAt(x.keys, i, At(sibling.keys, 0)),
                  !.children = SetAt(SetAt(x.children, i, child2), i + 1, sibling2)]

(* BTree._merge_children(x, i): [node |-> x as rewritten, reroot |-> whether *)
(* self.root was set to the merged child, x.children[i]]                    *)

MergeChildren(x, i, isRoot) ==
    LET child == At(x.children, i)
        sibling == At(x.children, i + 1)
        child2 == [child EXCEPT
                     !.keys = Append(child.keys, At(x.keys, i)) \o sibling.keys,
                     !.children = IF ~child.leaf
                                  THEN child.children \o sibling.children
                                  ELSE child.children]
        x2 == [x EXCEPT !.keys = RemoveAt(x.keys, i),
                        !.children = RemoveAt(SetAt(x.children, i, child2), i + 1)]
    IN  [node |-> x2, reroot |-> isRoot /\ x2.keys = <<>>]

(* BTree._fill_child(x, i): [node, reroot, merged]; merged is the index of  *)
(* the merged child, -1 after a borrow                                      *)

FillChild(x, i, isRoot) ==
    IF i # 0 /\ Len(At(x.children, i - 1).keys) >= t
    THEN [node |-> BorrowFromPrev(x, i), reroot |-> FALSE, merged |-> -1]
    ELSE IF i # Len(x.children) - 1 /\ Len(At(x.children, i + 1).keys) >= t
    THEN [node |-> BorrowFromNext(x, i), reroot |-> FALSE, merged |-> -1]
    ELSE IF i # Len(x.children) - 1
    THEN LET m == MergeChildren(x, i, isRoot)
         IN  [node |-> m.node, reroot |-> m.reroot, merged |-> i]
    ELSE LET m == MergeChildren(x, i - 1, isRoot)
         IN  [node |-> m.node, reroot |-> m.reroot, merged |-> i - 1]

(* The leaf case of BTree._delete_key(x, k), i the index its scan stopped at *)

\* the leaf case without its raise: a key that is not found is passed over
DeleteFromLeafNoRaise(x, k, i) ==
    IF i < Len(x.keys) /\ At(x.keys, i) = k
    THEN Result([x EXCEPT !.keys = RemoveAt(x.keys, i)], "none", <<>>)
    ELSE Result(x, "none", <<>>)

DeleteFromLeaf(x, k, i) ==
    IF i < Len(x.keys) /\ At(x.keys, i) = k
    THEN Result([x EXCEPT !.keys = RemoveAt(x.keys, i)], "none", <<>>)
    ELSE Result(x, "ValueError", <<>>)

(* BTree._delete_key(x, k) and BTree._delete_from_internal_node(x, k, i)    *)

RECURSIVE DeleteKey(_, _, _)
RECURSIVE DeleteFromInternalNode(_, _, _, _)

\* The call self._delete_key(x.children[j], k2) made from x, whose result is
\* written back into x; rerooted: self.root was set to x.children[m] just before.
Descend(x, j, k2, rerooted, m) ==
    LET r == DeleteKey(At(x.children, j), k2, rerooted /\ j = m)
        x2 == [x EXCEPT !.children = SetAt(x.children, j, r.node)]
    IN  Result(x2, r.err,
               IF ~rerooted THEN r.newroot
               ELSE IF j # m THEN <<At(x.children, m)>>
               ELSE IF r.newroot # <<>> THEN r.newroot
               ELSE <<r.node>>)

DeleteFromInternalNode(x, k, i, isRoot) ==
    IF At(x.children, i).keys # <<>>
    THEN LET pred == GetPredecessor(x, i)
         IN  IF pred = <<>> THEN Result(x, "IndexError", <<>>)
             ELSE Descend([x EXCEPT !.keys = SetAt(x.keys, i, pred[1])],
                          i, pred[1], FALSE, -1)
    ELSE IF At(x.children, i + 1).keys # <<>>
    THEN LET successor == GetSuccessor(x, i)
         IN  IF successor = <<>> THEN Result(x, "IndexError", <<>>)
             ELSE Descend([x EXCEPT !.keys = SetAt(x.keys, i, successor[1])],
                          i + 1, successor[1], FALSE, -1)
    ELSE LET m == MergeChildren(x, i, isRoot)
         IN  Descend(m.node, i, k, m.reroot, i)

DeleteKey(x, k, isRoot) ==
    LET i0 == ScanUp(x.keys, k)
    IN  IF x.leaf
        THEN DeleteFromLeaf(x, k, i0)
        ELSE IF i0 < Len(x.keys) /\ At(x.keys, i0) = k
        THEN DeleteFromInternalNode(x, k, i0, isRoot)
        ELSE LET i == IF i0 = Len(x.keys) THEN i0 - 1 ELSE i0
             IN  IF i = -1
                 \* x has no keys: child = x.children[-1], and _fill_child(x, -1)
                 \* raises IndexError at x.keys[-2], x.keys[-1] or x.keys.pop(-1)
                 \* (or at x.children[-2]) before it writes anything
                 THEN IF Len(Last(x.children).keys) < t
                      THEN Result(x, "IndexError", <<>>)
                      ELSE Descend(x, Len(x.children) - 1, k, FALSE, -1)
                 ELSE LET fill == Len(At(x.children, i).keys) < t
                          f == IF fill THEN FillChild(x, i, isRoot)
                               ELSE [node |-> x, reroot |-> FALSE, merged |-> -1]
                          j == IF i > Len(f.node.keys) THEN i - 1 ELSE i
                      IN  Descend(f.node, j, k, f.reroot, f.merged)

(* BTree.delete(k): [root |-> self.root afterwards, err |-> the exception]  *)

BDelete(r, k) ==
    LET d == DeleteKey(r, k, TRUE)
    IN  [root |-> IF d.newroot = <<>> THEN d.node ELSE d.newroot[1],
         err  |-> d.err]

----------------------------------------------------------------------------
(* The keys held by the nodes of a tree, and its shape                      *)

RECURSIVE KeysOf(_)
KeysOf(x) ==
    {x.keys[j] : j \in 1..Len(x.keys)}
        \cup UNION {KeysOf(x.children[c]) : c \in 1..Len(x.children)}

\* some node of the tree r holds k
Holds(r, k) == k \in KeysOf(r)

\* the nodes below x (every non-root node, when x is the root)
RECURSIVE Descendants(_)
Descendants(x) ==
    UNION {{x.children[c]} \cup Descendants(x.children[c]) : c \in 1..Len(x.children)}

AllNodes(r) == {r} \cup Descendants(r)

\* the depths, from x at depth d, of the nodes flagged leaf
RECURSIVE LeafDepths(_, _)
LeafDepths(x, d) ==
    (IF x.leaf THEN {d} ELSE {})
        \cup UNION {LeafDepths(x.children[c], d + 1) : c \in 1..Len(x.children)}

Height(r) == Max(LeafDepths(r, 1))

----------------------------------------------------------------------------
(* The scenario of the BTree(t=3) test data: calls made on a fresh tree     *)

Call(op, k) == [op |-> op, key |-> k]

Scenario ==
    << Call("insert", 10), Call("insert", 20), Call("insert", 5),
       Call("insert", 6), Call("insert", 12), Call("insert", 30),
       Call("insert", 7), Call("insert", 17), Call("delete", 20) >>

ScenNext(op, k) ==
    IF scen >= 0 /\ scen < Len(Scenario) /\ Scenario[scen + 1] = Call(op, k)
    THEN scen + 1
    ELSE -1

----------------------------------------------------------------------------
(* red_black_tree.py: the objects.  A Node object is named by an identity;  *)
(* T.nodes maps the identities of the objects in use to their fields and    *)
(* T.root is the identity self.root refers to.  color TRUE is red.          *)

\* the keys the callers draw from: those of test_delete and two more of
\* test_insert_and_read
RBKeys == {3, 7, 8, 10, 11, 18, 22}

\* the identity of the sentinel object self.NIL, and Python's None
NIL == 0
None == -1
\* the identity of a Node object that was removed from the tree and that
\* NIL.parent still refers to: it is no node of the tree any more
Dead == -2

\* Node(data): a red node with no links
RBNode(data) ==
    [data |-> data, color |-> TRUE, left |-> None, right |-> None,
     parent |-> None]

\* RedBlackTree(): the sentinel is a black Node(None), and it is the root
RBTreeNew ==
    [root |-> NIL,
     nodes |-> [i \in {NIL} |-> [RBNode(None) EXCEPT !.color = FALSE]]]

\* the identity of the object Node(data) makes: the callers keep the keys
\* of a tree distinct, so its key names it
NewId(data) == data

\* n.color = c, n.left = m, n.right = m, n.parent = m
SetColor(T, n, c) == [T EXCEPT !.nodes[n].color = c]
SetLeft(T, n, m) == [T EXCEPT !.nodes[n].left = m]
SetRight(T, n, m) == [T EXCEPT !.nodes[n].right = m]
SetParent(T, n, m) == [T EXCEPT !.nodes[n].parent = m]

(* red_black_tree.py: the private methods                                   *)

LeftRotate(T, x) ==
    LET y  == T.nodes[x].right
        b  == T.nodes[y].left
        xp == T.nodes[x].parent
        T1 == [T EXCEPT !.nodes[x].right = b,
                        !.nodes[b].parent = IF b # NIL THEN x ELSE @,
                        !.nodes[y].parent = xp,
                        !.nodes[y].left = x,
                        !.nodes[x].parent = y]
    IN  IF xp = None THEN [T1 EXCEPT !.root = y]
        ELSE IF x = T.nodes[xp].left THEN SetLeft(T1, xp, y)
        ELSE SetRight(T1, xp, y)

RightRotate(T, x) ==
    LET y  == T.nodes[x].left
        b  == T.nodes[y].right
        xp == T.nodes[x].parent
        T1 == [T EXCEPT !.nodes[x].left = b,
                        !.nodes[b].parent = IF b # NIL THEN x ELSE @,
                        !.nodes[y].parent = xp,
                        !.nodes[y].right = x,
                        !.nodes[x].parent = y]
    IN  IF xp = None THEN [T1 EXCEPT !.root = y]
        ELSE IF x = T.nodes[xp].right THEN SetRight(T1, xp, y)
        ELSE SetLeft(T1, xp, y)

\* u.color = False; k.parent.color = False; k.parent.parent.color = True;
\* k = k.parent.parent
Recolor(T, u, p, g) ==
    [T |-> [T EXCEPT !.nodes[u].color = FALSE, !.nodes[p].color = FALSE,
                     !.nodes[g].color = TRUE],
     k |-> g]

\* k.parent.color = False; k.parent.parent.color = True;
\* _left_rotate(k.parent.parent)
RecolorLeftRotate(T, k) ==
    LET p == T.nodes[k].parent
        g == T.nodes[p].parent
    IN  [T |-> LeftRotate([T EXCEPT !.nodes[p].color = FALSE,
                                    !.nodes[g].color = TRUE], g),
         k |-> k]

\* the same with _right_rotate(k.parent.parent)
RecolorRightRotate(T, k) ==
    LET p == T.nodes[k].parent
        g == T.nodes[p].parent
    IN  [T |-> RightRotate([T EXCEPT !.nodes[p].color = FALSE,
                                     !.nodes[g].color = TRUE], g),
         k |-> k]

\* one pass of the while loop of _fix_insert, k.parent being red: [T, k]
FixInsertStep(T, k) ==
    LET p == T.nodes[k].parent
        g == T.nodes[p].parent
    IN  IF p = T.nodes[g].right
        THEN IF T.nodes[T.nodes[g].left].color
             THEN Recolor(T, T.nodes[g].left, p, g)
             ELSE IF k = T.nodes[p].left
                  THEN RecolorLeftRotate(RightRotate(T, p), p)
                  ELSE RecolorLeftRotate(T, k)
        ELSE IF T.nodes[T.nodes[g].right].color
             THEN Recolor(T, T.nodes[g].right, p, g)
             ELSE IF k = T.nodes[p].right
                  THEN RecolorRightRotate(LeftRotate(T, p), p)
                  ELSE RecolorRightRotate(T, k)

\* _fix_insert without its loop: only the root is painted black
FixInsertRootOnly(T, k) == SetColor(T, T.root, FALSE)

RECURSIVE FixInsert(_, _)

\* the end of a pass of the loop: if k == self.root: break
FixInsertNext(T, k) ==
    IF k = T.root THEN SetColor(T, T.root, FALSE) ELSE FixInsert(T, k)

FixInsert(T, k) ==
    IF T.nodes[k].parent # None /\ T.nodes[T.nodes[k].parent].color
    THEN LET s == FixInsertStep(T, k) IN FixInsertNext(s.T, s.k)
    ELSE SetColor(T, T.root, FALSE)

\* _find_node(data), from node on: the identity found, or None
RECURSIVE FindNodeFrom(_, _, _)
FindNodeFrom(T, node, data) ==
    IF node = NIL THEN None
    ELSE IF data = T.nodes[node].data THEN node
    ELSE IF data < T.nodes[node].data
         THEN FindNodeFrom(T, T.nodes[node].left, data)
         ELSE FindNodeFrom(T, T.nodes[node].right, data)

\* _find_node that returns the root for data it does not find
FindNodeOrRoot(T, data) ==
    IF FindNodeFrom(T, T.root, data) # None
    THEN FindNodeFrom(T, T.root, data)
    ELSE IF T.root # NIL THEN T.root ELSE None

FindNode(T, data) == FindNodeFrom(T, T.root, data)

\* _transplant that leaves the sentinel's parent as it was
TransplantSkipNil(T, u, v) ==
    LET up == T.nodes[u].parent
        T1 == IF up = None THEN [T EXCEPT !.root = v]
              ELSE IF u = T.nodes[up].left THEN SetLeft(T, up, v)
              ELSE SetRight(T, up, v)
    IN  IF v = NIL THEN T1 ELSE SetParent(T1, v, up)

\* _transplant that also paints v red
TransplantRed(T, u, v) ==
    LET up == T.nodes[u].parent
        T1 == IF up = None THEN [T EXCEPT !.root = v]
              ELSE IF u = T.nodes[up].left THEN SetLeft(T, up, v)
              ELSE SetRight(T, up, v)
    IN  SetColor(SetParent(T1, v, up), v, TRUE)

Transplant(T, u, v) ==
    LET up == T.nodes[u].parent
        T1 == IF up = None THEN [T EXCEPT !.root = v]
              ELSE IF u = T.nodes[up].left THEN SetLeft(T, up, v)
              ELSE SetRight(T, up, v)
    IN  SetParent(T1, v, up)

RECURSIVE Minimum(_, _)
Minimum(T, node) ==
    IF T.nodes[node].left # NIL THEN Minimum(T, T.nodes[node].left)
    ELSE node

\* x = self.root, at the end of a pass of the loop of _fix_delete
AtRoot(T) == [T |-> T, x |-> T.root]

\* x a left child, its sibling w black with a red child: the last rotation
FixDeleteFarLeft(T, x) ==
    LET p == T.nodes[x].parent
        w == T.nodes[p].right
    IN  AtRoot(LeftRotate(
                 [T EXCEPT !.nodes[w].color = T.nodes[p].color,
                           !.nodes[p].color = FALSE,
                           !.nodes[T.nodes[w].right].color = FALSE],
                 p))

FixDeleteFarRight(T, x) ==
    LET p == T.nodes[x].parent
        w == T.nodes[p].left
    IN  AtRoot(RightRotate(
                 [T EXCEPT !.nodes[w].color = T.nodes[p].color,
                           !.nodes[p].color = FALSE,
                           !.nodes[T.nodes[w].left].color = FALSE],
                 p))

\* x a left child, its sibling w = x.parent.right black
FixDeleteBlackLeft(T, x) ==
    LET p == T.nodes[x].parent
        w == T.nodes[p].right
    IN  IF /\ T.nodes[T.nodes[w].left].color = FALSE
           /\ T.nodes[T.nodes[w].right].color = FALSE
        THEN [T |-> SetColor(T, w, TRUE), x |-> p]
        ELSE IF T.nodes[T.nodes[w].right].color = FALSE
             THEN FixDeleteFarLeft(
                    RightRotate(
                      [T EXCEPT !.nodes[T.nodes[w].left].color = FALSE,
                                !.nodes[w].color = TRUE],
                      w),
                    x)
             ELSE FixDeleteFarLeft(T, x)

FixDeleteBlackRight(T, x) ==
    LET p == T.nodes[x].parent
        w == T.nodes[p].left
    IN  IF /\ T.nodes[T.nodes[w].right].color = FALSE
           /\ T.nodes[T.nodes[w].left].color = FALSE
        THEN [T |-> SetColor(T, w, TRUE), x |-> p]
        ELSE IF T.nodes[T.nodes[w].left].color = FALSE
             THEN FixDeleteFarRight(
                    LeftRotate(
                      [T EXCEPT !.nodes[T.nodes[w].right].color = FALSE,
                                !.nodes[w].color = TRUE],
                      w),
                    x)
             ELSE FixDeleteFarRight(T, x)

\* one pass of the while loop of _fix_delete, x a black node other than the
\* root: [T, x]
FixDeleteStep(T, x) ==
    LET p == T.nodes[x].parent
    IN  IF x = T.nodes[p].left
        THEN IF T.nodes[T.nodes[p].right].color = TRUE
             THEN FixDeleteBlackLeft(
                    LeftRotate(
                      [T EXCEPT !.nodes[T.nodes[p].right].color = FALSE,
                                !.nodes[p].color = TRUE],
                      p),
                    x)
             ELSE FixDeleteBlackLeft(T, x)
        ELSE IF T.nodes[T.nodes[p].left].color = TRUE
             THEN FixDeleteBlackRight(
                    RightRotate(
                      [T EXCEPT !.nodes[T.nodes[p].left].color = FALSE,
                                !.nodes[p].color = TRUE],
                      p),
                    x)
             ELSE FixDeleteBlackRight(T, x)

\* _fix_delete without its loop: only x is painted black
FixDeleteBlackenOnly(T, x) == SetColor(T, x, FALSE)

RECURSIVE FixDelete(_, _)
FixDelete(T, x) ==
    IF x # T.root /\ T.nodes[x].color = FALSE
    THEN LET s == FixDeleteStep(T, x) IN FixDelete(s.T, s.x)
    ELSE SetColor(T, x, FALSE)

\* the tree once _delete_node(z) has returned: no node of the tree refers
\* to z any more, and NIL.parent may
Collect(T, z) ==
    [T EXCEPT !.nodes =
       [i \in (DOMAIN T.nodes) \ {z} |->
          IF i = NIL /\ T.nodes[NIL].parent = z
          THEN [T.nodes[NIL] EXCEPT !.parent = Dead]
          ELSE T.nodes[i]]]

\* y.right = z.right; y.right.parent = y
AdoptRight(T, y, z) ==
    [T EXCEPT !.nodes[y].right = T.nodes[z].right,
              !.nodes[T.nodes[z].right].parent = y]

\* y.left = z.left; y.left.parent = y; y.color = z.color
AdoptLeft(T, y, z) ==
    [T EXCEPT !.nodes[y].left = T.nodes[z].left,
              !.nodes[T.nodes[z].left].parent = y,
              !.nodes[y].color = T.nodes[z].color]

\* _delete_node(z) for z with two children, y = _minimum(z.right)
SpliceSuccessor(T, z, y) ==
    AdoptLeft(Transplant(IF T.nodes[y].parent = z
                         THEN SetParent(T, T.nodes[y].right, y)
                         ELSE AdoptRight(
                                Transplant(T, y, T.nodes[y].right), y, z),
                         z, y),
              y, z)

\* if y_original_color == False: self._fix_delete(x)
FixIfBlack(T, y_original_color, x) ==
    IF y_original_color = FALSE THEN FixDelete(T, x) ELSE T

\* _delete_node(z) up to its fix-up, lines 191 to 213: the tree with z
\* taken out, x and y_original_color
Detach(T, z) ==
    LET zn == T.nodes[z]
        y  == Minimum(T, zn.right)
    IN  IF zn.left = NIL
        THEN [T |-> Transplant(T, z, zn.right), x |-> zn.right,
              y_original_color |-> zn.color]
        ELSE IF zn.right = NIL
        THEN [T |-> Transplant(T, z, zn.left), x |-> zn.left,
              y_original_color |-> zn.color]
        ELSE [T |-> SpliceSuccessor(T, z, y), x |-> T.nodes[y].right,
              y_original_color |-> T.nodes[y].color]

DeleteNode(T, z) ==
    Collect(FixIfBlack(Detach(T, z).T, Detach(T, z).y_original_color,
                       Detach(T, z).x),
            z)

(* red_black_tree.py: the public methods                                    *)

\* the placement loop of insert as it would be if an equal key went left
RECURSIVE PlacementLeft(_, _, _, _)
PlacementLeft(T, x, y, data) ==
    IF x = NIL THEN y
    ELSE PlacementLeft(T,
                       IF data <= T.nodes[x].data THEN T.nodes[x].left
                       ELSE T.nodes[x].right,
                       x, data)

\* the node under which insert(data) hangs the new node: y at the end of
\* the placement loop that starts with x, y
RECURSIVE Placement(_, _, _, _)
Placement(T, x, y, data) ==
    IF x = NIL THEN y
    ELSE Placement(T,
                   IF data < T.nodes[x].data THEN T.nodes[x].left
                   ELSE T.nodes[x].right,
                   x, data)

\* insert(data) up to its fix-up, lines 49 to 70, the object Node(data)
\* having the identity node: the new red node hangs under the node the
\* placement loop ends at
HangAs(T, data, node) ==
    LET T1 == [T EXCEPT !.nodes =
                 [i \in (DOMAIN T.nodes) \cup {node} |->
                    IF i = node
                    THEN [RBNode(data) EXCEPT !.left = NIL, !.right = NIL]
                    ELSE T.nodes[i]]]
        y  == Placement(T1, T1.root, None, data)
        T2 == SetParent(T1, node, y)
        T3 == IF y = None THEN [T2 EXCEPT !.root = node]
              ELSE IF data < T2.nodes[y].data THEN SetLeft(T2, y, node)
              ELSE SetRight(T2, y, node)
    IN  T3

\* insert(data), the object Node(data) having the identity node
RBInsertAs(T, data, node) == FixInsert(HangAs(T, data, node), node)

Hang(T, data) == HangAs(T, data, NewId(data))

RBInsert(T, data) == RBInsertAs(T, data, NewId(data))

\* read(data), the loop from node on
RECURSIVE ReadFrom(_, _, _)
ReadFrom(T, node, data) ==
    IF node = NIL THEN FALSE
    ELSE IF data = T.nodes[node].data THEN TRUE
    ELSE IF data < T.nodes[node].data
         THEN ReadFrom(T, T.nodes[node].left, data)
         ELSE ReadFrom(T, T.nodes[node].right, data)

\* read that gives up below the root
ReadRootOnly(T, data) == T.root # NIL /\ data = T.nodes[T.root].data

RBRead(T, data) == ReadFrom(T, T.root, data)

\* delete(data): the tree afterwards and the exception raised, if any
RBDelete(T, data) ==
    LET z == FindNode(T, data)
    IN  IF z # None
        THEN [tree |-> DeleteNode(T, z), err |-> "none"]
        ELSE [tree |-> T, err |-> "ValueError"]

\* what `rblast` records of a call
RBDone(op, outcome) == [op |-> op, outcome |-> outcome]

\* a fresh RedBlackTree() on which nothing was called
RBIdle ==
    /\ rbt = RBTreeNew
    /\ rblive = {}
    /\ rblast = RBDone("init", "none")
    /\ rbscen = 0

----------------------------------------------------------------------------
(* xor_linked_list.py: the objects.  A Node object is named by its address, *)
(* the value id() gives it for its lifetime; L.nodes maps the addresses of  *)
(* the Node objects that are referenced (by _nodes, head or tail) to their  *)
(* fields, L.head and L.tail are an address or None, and L.keep is the      *)
(* collection self._nodes (its order is never read).                        *)

\* the addresses the allocator hands out: the XOR of two of them is none of
\* them, and 1 ^ 2 ^ 4 = 7
Addr == {1, 2, 4, 7}

\* the data the callers store: insert, read and delete never look at data,
\* and the callers store a different value in every Node, the one below
Values == {1, 2, 4, 7}
Tag(a) == a

\* the largest position the callers pass
MaxPos == 4
Positions == 0..MaxPos

\* what _get_node gives at a non-zero address where no referenced Node
\* lives: the behaviour of the call is undefined from there on
Wild == -3

\* a ^ b on Python's non-negative integers
RECURSIVE Xor(_, _)
Xor(a, b) ==
    IF a = 0 THEN b
    ELSE IF b = 0 THEN a
    ELSE (((a % 2) + (b % 2)) % 2) + (2 * Xor(a \div 2, b \div 2))

\* Node(data)
XNode(data) == [data |-> data, npx |-> 0]

\* XORLinkedList()
XListNew ==
    [head |-> None, tail |-> None, nodes |-> [a \in {} |-> XNode(0)],
     keep |-> {}]

\* id(node) if node else 0
GetPtr(node) == IF node # None THEN node ELSE 0

\* ctypes.cast(ptr, ctypes.py_object).value if ptr else None
GetNode(L, ptr) ==
    IF ptr = 0 THEN None
    ELSE IF ptr \in DOMAIN L.nodes THEN ptr
    ELSE Wild

\* the objects no longer referenced are reclaimed when the call is over
Reclaim(L) ==
    [L EXCEPT !.nodes =
       [a \in (DOMAIN L.nodes) \cap (L.keep \cup {L.head, L.tail}) |->
          L.nodes[a]]]

\* what a call leaves: the list, how it ended and the value it returned
XResult(L, out, val) == [list |-> Reclaim(L), out |-> out, val |-> val]

\* the traversal loop of insert, read and delete:
\*   while current and count < position: ...
\* from current, prev_ptr, count on; [current, prev_ptr, out]
RECURSIVE Walk(_, _, _, _, _)
Walk(L, current, prev_ptr, count, position) ==
    IF current # None /\ count < position
    THEN IF Xor(prev_ptr, L.nodes[current].npx) = 0
         THEN [current |-> current, prev_ptr |-> prev_ptr,
               out |-> "PositionOutOfRange"]
         ELSE IF GetNode(L, Xor(prev_ptr, L.nodes[current].npx)) = Wild
         THEN [current |-> Wild, prev_ptr |-> GetPtr(current),
               out |-> "undefined"]
         ELSE Walk(L, GetNode(L, Xor(prev_ptr, L.nodes[current].npx)),
                   GetPtr(current), count + 1, position)
    ELSE IF current = None
         THEN [current |-> current, prev_ptr |-> prev_ptr,
               out |-> "PositionOutOfRange"]
         ELSE [current |-> current, prev_ptr |-> prev_ptr, out |-> "none"]

(* xor_linked_list.py: the methods                                          *)

\* read(position)
XRead(L, position) ==
    IF L.head = None THEN XResult(L, "EmptyCollection", None)
    ELSE LET w == Walk(L, L.head, 0, 0, position)
         IN  IF w.out # "none" THEN XResult(L, w.out, None)
             ELSE XResult(L, "none", L.nodes[w.current].data)

\* the interior splice of insert, lines 114 to 122, of new_node before
\* current
Splice(L, new_node, current, prev_ptr) ==
    LET new_ptr  == GetPtr(new_node)
        next_ptr == Xor(prev_ptr, L.nodes[current].npx)
    IN  IF prev_ptr # 0
        THEN [L EXCEPT
                !.nodes[new_node].npx = Xor(prev_ptr, next_ptr),
                !.nodes[GetNode(L, prev_ptr)].npx =
                    Xor(Xor(@, GetPtr(current)), new_ptr),
                !.nodes[current].npx = Xor(new_ptr, next_ptr)]
        ELSE [L EXCEPT
                !.nodes[new_node].npx = Xor(prev_ptr, next_ptr),
                !.nodes[current].npx = Xor(new_ptr, next_ptr)]

\* insert(data, position), the new Node object being allocated at new_node;
\* position None stands for the omitted argument
XInsert(L, data, position, new_node) ==
    LET L1 == [L EXCEPT
                 !.nodes = [a \in (DOMAIN L.nodes) \cup {new_node} |->
                              IF a = new_node THEN XNode(data)
                              ELSE L.nodes[a]],
                 !.keep = @ \cup {new_node}]
        w  == Walk(L1, L1.head, 0, 0, position)
    IN  IF L.head = None
        THEN XResult([L1 EXCEPT !.head = new_node, !.tail = new_node],
                     "none", None)
        ELSE IF position = 0
        THEN XResult([L1 EXCEPT
                        !.nodes[new_node].npx = GetPtr(L.head),
                        !.nodes[L.head].npx = Xor(@, GetPtr(new_node)),
                        !.head = new_node],
                     "none", None)
        ELSE IF position = None
        THEN XResult([L1 EXCEPT
                        !.nodes[new_node].npx = GetPtr(L.tail),
                        !.nodes[L.tail].npx = Xor(@, GetPtr(new_node)),
                        !.tail = new_node],
                     "none", None)
        ELSE IF w.out # "none" THEN XResult(L1, w.out, None)
        ELSE XResult(Splice(L1, new_node, w.current, w.prev_ptr),
                     "none", None)

\* delete(0) on a list that has a head, lines 172 to 181
DeleteHead(L) ==
    LET next_ptr == L.nodes[L.head].npx
    IN  IF next_ptr = 0
        THEN XResult([L EXCEPT !.head = None, !.tail = None],
                     "none", L.nodes[L.head].data)
        ELSE IF GetNode(L, next_ptr) = Wild
        THEN XResult(L, "undefined", None)
        ELSE XResult([L EXCEPT
                        !.nodes[GetNode(L, next_ptr)].npx =
                            Xor(@, GetPtr(L.head)),
                        !.head = GetNode(L, next_ptr)],
                     "none", L.nodes[L.head].data)

\* lines 203 to 207: the predecessor forgets current
UnlinkPrev(L, current, prev_ptr, next_ptr) ==
    IF prev_ptr # 0
    THEN [L EXCEPT !.nodes[GetNode(L, prev_ptr)].npx =
                       IF next_ptr # 0
                       THEN Xor(Xor(@, GetPtr(current)), next_ptr)
                       ELSE Xor(@, GetPtr(current))]
    ELSE L

\* lines 209 to 213: the successor forgets current
UnlinkNext(L, current, prev_ptr, next_ptr) ==
    IF next_ptr # 0
    THEN [L EXCEPT !.nodes[GetNode(L, next_ptr)].npx =
                       IF prev_ptr # 0
                       THEN Xor(Xor(@, GetPtr(current)), prev_ptr)
                       ELSE Xor(@, GetPtr(current))]
    ELSE L

\* lines 216 to 221: the tail moves, _nodes forgets current
DropNode(L, current, prev_ptr) ==
    LET L1 == IF current = L.tail
              THEN [L EXCEPT !.tail = GetNode(L, prev_ptr)] ELSE L
    IN  IF current \in L.keep
        THEN XResult([L1 EXCEPT !.keep = @ \ {current}],
                     "none", L.nodes[current].data)
        ELSE XResult(L1, "ValueError", None)

\* delete(position) once the traversal has found current, lines 199 to 221
Unlink(L, current, prev_ptr) ==
    LET next_ptr == Xor(prev_ptr, L.nodes[current].npx)
    IN  IF GetNode(L, next_ptr) = Wild
        THEN XResult(UnlinkPrev(L, current, prev_ptr, next_ptr),
                     "undefined", None)
        ELSE DropNode(UnlinkNext(UnlinkPrev(L, current, prev_ptr, next_ptr),
                                 current, prev_ptr, next_ptr),
                      current, prev_ptr)

\* delete(position) as it would be if the tail were moved before the
\* traversal has found the node
XDeleteTailFirst(L, position) ==
    IF L.head = None THEN XResult(L, "EmptyCollection", None)
    ELSE IF position = 0 THEN DeleteHead(L)
    ELSE LET w == Walk(L, L.head, 0, 0, position)
         IN  IF w.out # "none"
             THEN XResult([L EXCEPT !.tail = L.head], w.out, None)
             ELSE Unlink(L, w.current, w.prev_ptr)

\* delete(position)
XDelete(L, position) ==
    IF L.head = None THEN XResult(L, "EmptyCollection", None)
    ELSE IF position = 0 THEN DeleteHead(L)
    ELSE LET w == Walk(L, L.head, 0, 0, position)
         IN  IF w.out # "none" THEN XResult(L, w.out, None)
             ELSE Unlink(L, w.current, w.prev_ptr)

\* what `xlast` records of a call
XDone(op, outcome) == [op |-> op, outcome |-> outcome]

\* a fresh XORLinkedList() on which nothing was called
XLIdle ==
    /\ xl = XListNew
    /\ xlast = XDone("init", "none")
    /\ xseq = <<>>

----------------------------------------------------------------------------
(* The state machine: a BTree(t) and the calls made on it                   *)

\* what `last` records of a call: held says whether some node held the key
\* when the call was made
Done(op, outcome, held) == [op |-> op, outcome |-> outcome, held |-> held]

InitBTree ==
    /\ t \in 2..MaxT
    /\ root = Node(TRUE)
    /\ live = {}
    /\ last = Done("init", "none", FALSE)
    /\ hist = "inserts"
    /\ scen = IF t = 3 THEN 0 ELSE -1
    /\ RBIdle
    /\ XLIdle

\* a fresh BTree(2) on which nothing was called
BTreeIdle ==
    /\ t = 2
    /\ root = Node(TRUE)
    /\ live = {}
    /\ last = Done("init", "none", FALSE)
    /\ hist = "inserts"
    /\ scen = -1

\* tree.insert(k), k a key not inserted before or deleted since
Insert(k) ==
    /\ k \notin live
    /\ root' = BInsert(root, k)
    /\ live' = live \cup {k}
    /\ last' = Done("insert", "none", Holds(root, k))
    /\ scen' = ScenNext("insert", k)
    /\ UNCHANGED <<t, hist, rbVars, xlVars>>

\* tree.delete(k), of any key; an exception leaves the tree as written so far
Delete(k) ==
    LET d == BDelete(root, k)
    IN  /\ root' = d.root
        /\ live' = IF d.err = "none" THEN live \ {k} ELSE live
        /\ last' = Done("delete", d.err, Holds(root, k))
        /\ hist' = IF d.err # "none" THEN "any"
                   ELSE IF hist = "inserts" THEN "clean" ELSE hist
        /\ scen' = ScenNext("delete", k)
        /\ UNCHANGED <<t, rbVars, xlVars>>

\* tree.read(k): returns BRead(root, k) and writes nothing
Read(k) ==
    /\ BRead(root, k) \in BOOLEAN
    /\ UNCHANGED vars

NextBTree ==
    \/ \E k \in Keys : Insert(k)
    \/ \E k \in Keys : Delete(k)
    \/ \E k \in Keys : Read(k)

SpecBTree == InitBTree /\ [][NextBTree]_vars

----------------------------------------------------------------------------
(* Shape predicates of the B-tree invariants (module docstring, Properties) *)

\* a non-root node holds between t-1 and 2t-1 keys
KeyCountOK(n) == (t - 1 <= Len(n.keys)) /\ (Len(n.keys) <= (2 * t) - 1)

\* an internal node with k keys has k+1 children; a leaf has none
ChildCountOK(n) ==
    IF n.leaf THEN n.children = <<>>
    ELSE Len(n.children) = Len(n.keys) + 1

\* the keys of a node ascend
NodeSorted(n) ==
    \A i, j \in 1..Len(n.keys) : i < j => n.keys[i] < n.keys[j]

\* the keys below child c (1-based) lie between that child's neighbouring keys
ChildrenInRange(n) ==
    \A c \in 1..Len(n.children) :
        \A k \in KeysOf(n.children[c]) :
            /\ (c - 1 >= 1 /\ c - 1 <= Len(n.keys)) => n.keys[c - 1] < k
            /\ c <= Len(n.keys) => k < n.keys[c]

----------------------------------------------------------------------------
(* Claims                                                                   *)

\* C1: as long as only inserts (of distinct keys) have been made, every key
\* inserted so far is reported present by read.
C1_InsertedKeysFound ==
    hist = "inserts" => \A k \in live : BRead(root, k)

\* C2: in a state reached by inserts and successful deletes, delete(k) of a
\* key that read reports present returns without raising, afterwards read(k)
\* is false, and every other key read reported present is still reported.
C2_DeletePresentKey ==
    [][\A k \in Keys :
          (hist # "any" /\ BRead(root, k) /\ Delete(k)) =>
              /\ last'.outcome = "none"
              /\ ~BRead(root', k)
              /\ \A j \in Keys \ {k} : BRead(root, j) => BRead(root', j)]_vars

\* C3: on a fresh BTree(3), after inserting 10,20,5,6,12,30,7,17 in that order
\* read(20) is true; delete(20) then completes, after which read(20) is false
\* and read(10) and read(30) are true.
C3_Scenario ==
    /\ scen = 8 => BRead(root, 20)
    /\ scen = 9 => /\ last.outcome = "none"
                   /\ ~BRead(root, 20)
                   /\ BRead(root, 10)
                   /\ BRead(root, 30)

\* C4: after every completed insert or delete, every non-root node holds at
\* least t-1 and at most 2t-1 keys.
C4_KeyCounts ==
    last.outcome = "none" => \A n \in Descendants(root) : KeyCountOK(n)

\* C5: after every completed insert or delete, every internal node with k keys
\* has exactly k+1 children and every leaf has no children.
C5_ChildCounts ==
    last.outcome = "none" => \A n \in AllNodes(root) : ChildCountOK(n)

\* C6: all leaves are at the same depth from the root, in every reachable
\* state (so after every completed insert or delete, and after a failed one).
C6_LeavesSameDepth ==
    Cardinality(LeafDepths(root, 0)) = 1

\* C6 witness: a completed delete has left a tree of three levels.
C6_Witness ==
    /\ last.op = "delete" /\ last.outcome = "none"
    /\ Height(root) >= 3
    /\ C6_LeavesSameDepth

\* C7: after every completed insert or delete, keys are sorted within each
\* node and the keys in the subtree of child i lie between key i-1 and key i.
C7_Sorted ==
    last.outcome = "none" =>
        \A n \in AllNodes(root) : NodeSorted(n) /\ ChildrenInRange(n)

C9_FailedDeleteUnchanged ==
    [][\A k \in Keys :
          (Delete(k) /\ last'.outcome = "ValueError") => root' = root]_vars

\* C10: read(k) is true immediately after insert(k) returns, in any reachable
\* state; and read(k) is false on a tree into which nothing was inserted.
C10_ReadAfterInsert ==
    /\ \A k \in Keys : ~BRead(root, k)
    /\ [][\A k \in Keys : Insert(k) => BRead(root', k)]_vars

----------------------------------------------------------------------------
(* The state machine: a RedBlackTree and the calls made on it               *)

\* the calls of test_delete, made on a fresh tree
RBScenario ==
    << Call("insert", 7), Call("insert", 3), Call("insert", 18),
       Call("insert", 10), Call("insert", 22), Call("delete", 18) >>

RBScenNext(op, k) ==
    IF /\ rbscen >= 0 /\ rbscen < Len(RBScenario)
       /\ RBScenario[rbscen + 1] = Call(op, k)
    THEN rbscen + 1
    ELSE -1

InitRB == RBIdle /\ BTreeIdle /\ XLIdle

\* tree.insert(k), k a key not inserted before or deleted since
InsertRB(k) ==
    /\ k \notin rblive
    /\ rbt' = RBInsert(rbt, k)
    /\ rblive' = rblive \cup {k}
    /\ rblast' = RBDone("insert", "none")
    /\ rbscen' = RBScenNext("insert", k)
    /\ UNCHANGED <<btVars, xlVars>>

\* tree.delete(k), of any key
DeleteRB(k) ==
    LET d == RBDelete(rbt, k)
    IN  /\ rbt' = d.tree
        /\ rblive' = IF d.err = "none" THEN rblive \ {k} ELSE rblive
        /\ rblast' = RBDone("delete", d.err)
        /\ rbscen' = RBScenNext("delete", k)
        /\ UNCHANGED <<btVars, xlVars>>

\* tree.read(k): returns RBRead(rbt, k) and writes nothing
ReadRB(k) ==
    /\ RBRead(rbt, k) \in BOOLEAN
    /\ UNCHANGED vars

NextRB ==
    \/ \E k \in RBKeys : InsertRB(k)
    \/ \E k \in RBKeys : DeleteRB(k)
    \/ \E k \in RBKeys : ReadRB(k)

SpecRB == InitRB /\ [][NextRB]_vars

----------------------------------------------------------------------------
(* Shape of a red-black tree (module docstring, properties 1 to 5)          *)

\* the nodes of the subtree rooted at n, the sentinel left out
RECURSIVE Subtree(_, _)
Subtree(T, n) ==
    IF n = NIL THEN {}
    ELSE {n} \cup Subtree(T, T.nodes[n].left)
             \cup Subtree(T, T.nodes[n].right)

\* the keys the nodes of the tree hold
RBKeysOf(T) == {T.nodes[n].data : n \in Subtree(T, T.root)}

\* property 4: a red node has no red child
NoRedRed(T) ==
    \A n \in Subtree(T, T.root) :
        T.nodes[n].color =>
            /\ ~T.nodes[T.nodes[n].left].color
            /\ ~T.nodes[T.nodes[n].right].color

\* the numbers of black nodes on the paths from n down to the sentinel,
\* the sentinel not counted
RECURSIVE BlackCounts(_, _)
BlackCounts(T, n) ==
    IF n = NIL THEN {0}
    ELSE {c + (IF T.nodes[n].color THEN 0 ELSE 1) :
            c \in BlackCounts(T, T.nodes[n].left)
                   \cup BlackCounts(T, T.nodes[n].right)}

----------------------------------------------------------------------------
(* Claims about the red-black tree, checked under SpecRB                    *)

\* C11: after any sequence of inserts of distinct keys and successful
\* deletes, read(k) is true exactly for the keys inserted and not deleted
\* since: true right after insert(k), false right after delete(k), false for
\* every key on an empty tree, and a delete leaves the other keys found.
C11_ReadIsMembership ==
    \A k \in RBKeys : RBRead(rbt, k) <=> (k \in rblive)

\* the state test_delete ends in: 7, 3, 18, 10, 22 inserted, 18 deleted
C11_Witness ==
    /\ rbscen = Len(RBScenario)
    /\ ~RBRead(rbt, 18)
    /\ RBRead(rbt, 7)
    /\ RBRead(rbt, 22)

\* C12: after every completed insert or delete no red node has a red child.
C12_NoRedRed == NoRedRed(rbt)

\* a successful delete has left a red node with a child below it
C12_Witness ==
    /\ rblast = RBDone("delete", "none")
    /\ \E n \in Subtree(rbt, rbt.root) :
          rbt.nodes[n].color /\ rbt.nodes[n].left # NIL

\* C13: after every completed insert or delete, all paths from the root, and
\* from any node, down to the sentinel hold the same number of black nodes.
C13_BlackHeight ==
    \A n \in Subtree(rbt, rbt.root) : Cardinality(BlackCounts(rbt, n)) = 1

\* a successful delete has left five keys on paths of two black nodes each
C13_Witness ==
    /\ rblast = RBDone("delete", "none")
    /\ Cardinality(rblive) = 5
    /\ BlackCounts(rbt, rbt.root) = {2}

\* C14: delete(k) of a key that no node of the tree holds fails with
\* ValueError and leaves the tree as it was: the root and every node's key,
\* colour, left, right and parent.
C14_DeleteAbsent ==
    [][\A k \in RBKeys :
          (DeleteRB(k) /\ k \notin RBKeysOf(rbt)) =>
              (rblast'.outcome = "ValueError" /\ rbt' = rbt)]_vars

\* a delete has failed with ValueError on a tree that holds keys
C14_Witness ==
    /\ rblast = RBDone("delete", "ValueError")
    /\ rbt.root # NIL

----------------------------------------------------------------------------
(* The state machine: an XORLinkedList and the calls made on it             *)

InitXL == XLIdle /\ BTreeIdle /\ RBIdle

\* the process is gone once a call has ended in a segmentation fault
Running == xlast.outcome # "SegFault"

\* how a call that r describes ends: a call whose behaviour is undefined
\* may kill the process or carry on with what it has written
Ends(r, outcome) ==
    \/ outcome = r.out
    \/ r.out = "undefined" /\ outcome = "SegFault"

\* the node delete(position) unlinks, if it finds one
Removed(L, position) ==
    IF position = 0 THEN L.head
    ELSE Walk(L, L.head, 0, 0, position).current

\* s with e put at index i, or at its end if i is None or beyond it
PutAt(s, i, e) ==
    IF i = None \/ i >= Len(s) THEN Append(s, e) ELSE InsertAt(s, i, e)

\* s without e
Without(s, e) == SelectSeq(s, LAMBDA x : x # e)

\* list.insert(v, p), or list.insert(v) for p = None; the new Node object
\* is allocated at a, an address no referenced object has
InsertXL(v, p, a) ==
    /\ Running
    /\ a \notin DOMAIN xl.nodes
    /\ v = Tag(a)
    /\ LET r == XInsert(xl, v, p, a)
       IN  /\ xl' = r.list
           /\ \E outcome \in {r.out, "SegFault"} :
                /\ Ends(r, outcome)
                /\ xlast' = XDone("insert", outcome)
           /\ xseq' = IF r.out = "none" THEN PutAt(xseq, p, a) ELSE xseq
    /\ UNCHANGED <<btVars, rbVars>>

\* list.delete(p)
DeleteXL(p) ==
    /\ Running
    /\ LET r == XDelete(xl, p)
       IN  /\ xl' = r.list
           /\ \E outcome \in {r.out, "SegFault"} :
                /\ Ends(r, outcome)
                /\ xlast' = XDone("delete", outcome)
           /\ xseq' = IF r.out = "none" THEN Without(xseq, Removed(xl, p))
                      ELSE xseq
    /\ UNCHANGED <<btVars, rbVars>>

\* list.read(p): writes nothing; where its behaviour is undefined it may
\* kill the process
ReadXL(p) ==
    /\ Running
    /\ \/ UNCHANGED vars
       \/ /\ XRead(xl, p).out = "undefined"
          /\ xlast' = XDone("read", "SegFault")
          /\ UNCHANGED <<xl, xseq, btVars, rbVars>>

NextXL ==
    \/ \E v \in Values, p \in Positions \cup {None}, a \in Addr :
          InsertXL(v, p, a)
    \/ \E p \in Positions : DeleteXL(p)
    \/ \E p \in Positions : ReadXL(p)

SpecXL == InitXL /\ [][NextXL]_vars

----------------------------------------------------------------------------
(* XORLinkedList: what the callers can observe                              *)

\* the number of elements the calls so far have put into the list and not
\* taken out of it
Length == Len(xseq)

\* two calls end the same way with the same value
Same(r1, r2) == r1.out = r2.out /\ r1.val = r2.val

\* read(p) on L returns v
Returns(L, p, v) == XRead(L, p).out = "none" /\ XRead(L, p).val = v

\* read(i) on L returns a value exactly for the positions i below m
HasLength(L, m) ==
    \A i \in 0..(MaxPos + 1) : (XRead(L, i).out = "none") <=> (i < m)

----------------------------------------------------------------------------
(* XORLinkedList: the claims                                                *)

\* C15: an insert at an interior position p (1 <= p <= n-1) of a list of
\* length n >= 2 succeeds; afterwards the list has length n+1, read(p)
\* returns the value, read(i) is as before for i < p and read(i+1) is what
\* read(i) was for p <= i <= n-1
C15_InteriorInsert ==
    [][\A v \in Values, p \in 1..MaxPos, a \in Addr :
          (InsertXL(v, p, a) /\ Length >= 2 /\ p <= Length - 1) =>
             /\ xlast'.outcome = "none"
             /\ HasLength(xl', Length + 1)
             /\ Returns(xl', p, v)
             /\ \A i \in 0..(p - 1) : Same(XRead(xl', i), XRead(xl, i))
             /\ \A i \in p..(Length - 1) :
                   Same(XRead(xl', i + 1), XRead(xl, i))]_vars

\* C16: in a list of length n, delete(p) for 0 <= p < n returns the value
\* read(p) returned just before; afterwards the length is n-1, read(i) is as
\* before for i < p and read(i) is what read(i+1) was for i >= p
C16_DeleteReturnsRead ==
    [][\A p \in Positions :
          (DeleteXL(p) /\ p < Length) =>
             /\ xlast'.outcome = "none"
             /\ XRead(xl, p).out = "none"
             /\ Same(XDelete(xl, p), XRead(xl, p))
             /\ HasLength(xl', Length - 1)
             /\ \A i \in 0..(p - 1) : Same(XRead(xl', i), XRead(xl, i))
             /\ \A i \in p..(Length - 2) :
                   Same(XRead(xl', i), XRead(xl, i + 1))]_vars

\* the address of the neighbour at index i of the list order, 0 beyond
\* either end
Neighbour(s, i) == IF i >= 1 /\ i <= Len(s) THEN GetPtr(s[i]) ELSE 0

\* every node of the list holds the XOR of the addresses of the node before
\* it and of the node after it
Linked(L, s) ==
    \A i \in 1..Len(s) :
       /\ s[i] \in DOMAIN L.nodes
       /\ L.nodes[s[i]].npx = Xor(Neighbour(s, i - 1), Neighbour(s, i + 1))

\* C17: after every successful insert or delete, the combined field of every
\* node is the XOR of the identities of its predecessor and of its successor
\* in list order, 0 standing for a missing neighbour
C17_CombinedFields ==
    (xlast.op \in {"insert", "delete"} /\ xlast.outcome = "none") =>
        Linked(xl, xseq)

\* C18: in a list of length n, insert(v) with the position omitted succeeds;
\* afterwards the length is n+1, read(n) returns v and read(i) is as before
\* for every i < n
C18_Append ==
    [][\A v \in Values, a \in Addr :
          InsertXL(v, None, a) =>
             /\ xlast'.outcome = "none"
             /\ HasLength(xl', Length + 1)
             /\ Returns(xl', Length, v)
             /\ \A i \in 0..(Length - 1) :
                   Same(XRead(xl', i), XRead(xl, i))]_vars

\* C19: in a list of length n, insert(v, 0) succeeds; afterwards read(0)
\* returns v and read(i+1) returns what read(i) returned before, for every
\* i < n
C19_Prepend ==
    [][\A v \in Values, a \in Addr :
          InsertXL(v, 0, a) =>
             /\ xlast'.outcome = "none"
             /\ Returns(xl', 0, v)
             /\ \A i \in 0..(Length - 1) :
                   /\ XRead(xl, i).out = "none"
                   /\ Same(XRead(xl', i + 1), XRead(xl, i))]_vars

\* C20: on a list of length n > 0, read(p) and delete(p) fail with
\* PositionOutOfRange for every p >= n and do not fail for 0 <= p < n; on an
\* empty list they fail with EmptyCollection for every p
C20_PositionErrors ==
    Running =>
       \A p \in Positions :
          /\ XRead(xl, p).out =
                IF Length = 0 THEN "EmptyCollection"
                ELSE IF p >= Length THEN "PositionOutOfRange" ELSE "none"
          /\ XDelete(xl, p).out =
                IF Length = 0 THEN "EmptyCollection"
                ELSE IF p >= Length THEN "PositionOutOfRange" ELSE "none"

\* C21: in every state, the empty list included, insert(v, p) with an
\* explicit position p greater than the length fails with
\* PositionOutOfRange and adds no element: every read is as before
C21_InsertBeyondLength ==
    [][\A v \in Values, p \in Positions, a \in Addr :
          (InsertXL(v, p, a) /\ p > Length) =>
             /\ xlast'.outcome = "PositionOutOfRange"
             /\ xseq' = xseq
             /\ \A i \in Positions : Same(XRead(xl', i), XRead(xl, i))]_vars

----------------------------------------------------------------------------
(* XORLinkedList filled and then drained: successful inserts, at the tail,  *)
(* at the head or at a position, followed by successful deletes             *)

\* a successful insert, as long as no delete has been called
FillXL(v, p, a) ==
    /\ xlast.op # "delete"
    /\ InsertXL(v, p, a)
    /\ xlast'.outcome = "none"

\* a successful delete
DrainXL(p) ==
    /\ DeleteXL(p)
    /\ xlast'.outcome = "none"

NextXLDrain ==
    \/ \E v \in Values, p \in Positions \cup {None}, a \in Addr :
          FillXL(v, p, a)
    \/ \E p \in Positions : DrainXL(p)

SpecXLDrain == InitXL /\ [][NextXLDrain]_vars

\* the list has no nodes: head and tail are absent, read and delete fail
\* with EmptyCollection
IsEmpty(L) ==
    /\ L.head = None
    /\ L.tail = None
    /\ \A p \in Positions :
          /\ XRead(L, p).out = "EmptyCollection"
          /\ XDelete(L, p).out = "EmptyCollection"

\* C22: after successful inserts followed by successful deletes the list is
\* empty exactly when as many deletes as inserts have succeeded, and not
\* before
C22_EmptyWhenDrained == IsEmpty(xl) <=> (Length = 0)

----------------------------------------------------------------------------
(* XORLinkedList: what a failed call leaves                                 *)

\* the ways a call fails that the callers are told about
Failures == {"PositionOutOfRange", "EmptyCollection"}

\* M has the head, the tail and every node of L as they are in L, and a
\* node that M has and L has not is linked to no neighbour
Untouched(L, M) ==
    /\ M.head = L.head
    /\ M.tail = L.tail
    /\ \A a \in DOMAIN L.nodes :
          a \in DOMAIN M.nodes /\ M.nodes[a] = L.nodes[a]
    /\ \A a \in (DOMAIN M.nodes) \ (DOMAIN L.nodes) : M.nodes[a].npx = 0

\* C23: an insert, read or delete that fails with PositionOutOfRange or
\* EmptyCollection leaves head, tail, the combined field of every node and
\* the element sequence as they were, and a failed insert has not linked
\* the new node to any neighbour; every read that was defined before the
\* call ends as it did before
C23_FailedCallUnchanged ==
    /\ [][xlast'.outcome \in Failures =>
             /\ Untouched(xl, xl')
             /\ xseq' = xseq
             /\ \A i \in Positions :
                   XRead(xl, i).out # "undefined" =>
                      Same(XRead(xl', i), XRead(xl, i))]_vars
    /\ [](\A p \in Positions :
             XRead(xl, p).out \in Failures => XRead(xl, p).list = xl)

\* a list with a head has just refused an insert at a position: the node
\* made for it is kept but linked to nothing
C23_Witness ==
    /\ xlast = XDone("insert", "PositionOutOfRange")
    /\ xl.head # None
    /\ \E a \in xl.keep : a \notin {xl.head, xl.tail} /\ xl.nodes[a].npx = 0
    /\ \E p \in Positions : XRead(xl, p).out = "PositionOutOfRange"

----------------------------------------------------------------------------
(* read on the three engines                                                *)

\* C24: on each of the three engines read changes no state, so that two
\* consecutive reads with the same argument and no mutation in between end
\* the same way: a read is never a step that changes a variable
C24_ReadChangesNothing ==
    [][/\ \A k \in Keys : Read(k) => UNCHANGED btVars
       /\ \A k \in RBKeys : ReadRB(k) => UNCHANGED rbVars
       /\ \A p \in Positions : ReadXL(p) => UNCHANGED xlVars]_vars

----------------------------------------------------------------------------
(* BTree: the steps of insert and delete                                    *)

\* how many times k occurs in the list s
Count(s, k) == Cardinality({j \in 1..Len(s) : s[j] = k})

\* the root that insert builds over a full root before it splits it
RootOver(r) == [Node(FALSE) EXCEPT !.children = <<r>>]

\* the places where _split_child can be called: a parent x, a node of the
\* tree or the new root over a full root, and the index i of a full child
SplitSites(r) ==
    {s \in (AllNodes(r) \cup {RootOver(r)}) \X (0..((2 * MaxT) - 1)) :
        /\ s[2] < Len(s[1].children)
        /\ Len(At(s[1].children, s[2]).keys) = (2 * t) - 1}

\* _split_child(x, i) promotes the median key of the child y, puts the new
\* sibling right after it and loses no key and no child
SplitKeeps(x, i, y, x2) ==
    /\ At(x2.keys, i) = At(y.keys, t - 1)
    /\ Len(x2.children) = Len(x.children) + 1
    /\ \A k \in Keys :
          Count(x.keys \o y.keys, k) =
             Count(x2.keys \o At(x2.children, i).keys
                      \o At(x2.children, i + 1).keys, k)
    /\ At(x2.children, i).children \o At(x2.children, i + 1).children =
          y.children

\* C25: splitting a full child at index i of a parent promotes the child's
\* median key (index t-1) into the parent at index i, places the new sibling
\* at child index i+1 and loses no key and no child
C25_SplitKeepsKeys ==
    \A s \in SplitSites(root) :
       SplitKeeps(s[1], s[2], At(s[1].children, s[2]), SplitChild(s[1], s[2]))

\* the descent of _delete_key(x, k), lines 192 to 202, for an internal x
\* that does not hold k: [node |-> x as _fill_child has rewritten it,
\* index |-> the index of the child the call recurses into], the index being
\* -1 where _fill_child raises before any descent
DeleteDescent(x, k) ==
    LET i0 == ScanUp(x.keys, k)
        i  == IF i0 = Len(x.keys) THEN i0 - 1 ELSE i0
    IN  IF i = -1
        THEN [node |-> x,
              index |-> IF Len(Last(x.children).keys) < t THEN -1
                        ELSE Len(x.children) - 1]
        ELSE IF Len(At(x.children, i).keys) < t
        THEN [node |-> FillChild(x, i, FALSE).node,
              index |-> IF i > Len(FillChild(x, i, FALSE).node.keys)
                        THEN i - 1 ELSE i]
        ELSE [node |-> x, index |-> IF i > Len(x.keys) THEN i - 1 ELSE i]

\* the index of the child _search(x, k) descends into, lines 156 to 166
SearchDescent(x, k) == ScanUp(x.keys, k)

\* C26: when the key k being deleted is not among the keys of an internal
\* node x, _delete_key descends into the child of x that _search descends
\* into for k: the child at the index of the first key >= k, the last child
\* when k is greater than all keys of x
C26_DeleteDescent ==
    \A k \in Keys :
       (~root.leaf /\ \A j \in 1..Len(root.keys) : root.keys[j] # k) =>
          \/ DeleteDescent(root, k).index = -1
          \/ DeleteDescent(root, k).index =
                SearchDescent(DeleteDescent(root, k).node, k)

\* what _delete_from_internal_node(x, k, i) does with the key at index i,
\* lines 212 to 222
InternalCase(x, i) ==
    IF At(x.children, i).keys # <<>> THEN "predecessor"
    ELSE IF At(x.children, i + 1).keys # <<>> THEN "successor"
    ELSE "merge"

\* C27: a key found in an internal node is replaced by its predecessor only
\* when the left adjacent child has at least t keys, by its successor only
\* when the right adjacent child has at least t keys, and the two children
\* are merged only when both have exactly t-1 keys
C27_InternalDelete ==
    ~root.leaf =>
       \A i \in 0..(Len(root.keys) - 1) :
          /\ InternalCase(root, i) = "predecessor" =>
                Len(At(root.children, i).keys) >= t
          /\ InternalCase(root, i) = "successor" =>
                Len(At(root.children, i + 1).keys) >= t
          /\ InternalCase(root, i) = "merge" =>
                /\ Len(At(root.children, i).keys) = t - 1
                /\ Len(At(root.children, i + 1).keys) = t - 1

\* C28: the height grows, by exactly one, only when insert finds the root
\* full and splits it; it shrinks, by exactly one, only when delete merges
\* the only two children of the root and the merged node becomes the root;
\* after every completed operation the root is not an internal node without
\* keys
C28_HeightChanges ==
    /\ [][/\ Height(root') > Height(root) =>
                /\ Height(root') = Height(root) + 1
                /\ last'.op = "insert"
                /\ Len(root.keys) = (2 * t) - 1
          /\ Height(root') < Height(root) =>
                /\ Height(root') = Height(root) - 1
                /\ last'.op = "delete"
                /\ Len(root.keys) = 1
                /\ Len(root.children) = 2]_vars
    /\ [](last.outcome = "none" => (root.leaf \/ root.keys # <<>>))

----------------------------------------------------------------------------
(* RedBlackTree: the sentinel during the fix-up walks                       *)

\* the sentinel is black and holds no data
NilIntact(T) == T.nodes[NIL].color = FALSE /\ T.nodes[NIL].data = None

\* the sentinel is intact before and after every pass of the loop of
\* _fix_insert(k)
RECURSIVE FixInsertKeepsNil(_, _)
FixInsertKeepsNil(T, k) ==
    /\ NilIntact(T)
    /\ IF T.nodes[k].parent # None /\ T.nodes[T.nodes[k].parent].color
       THEN IF FixInsertStep(T, k).k = FixInsertStep(T, k).T.root
            THEN NilIntact(FixInsertStep(T, k).T)
            ELSE FixInsertKeepsNil(FixInsertStep(T, k).T,
                                   FixInsertStep(T, k).k)
       ELSE TRUE

\* the sentinel is intact before and after every pass of the loop of
\* _fix_delete(x)
RECURSIVE FixDeleteKeepsNil(_, _)
FixDeleteKeepsNil(T, x) ==
    /\ NilIntact(T)
    /\ IF x # T.root /\ T.nodes[x].color = FALSE
       THEN FixDeleteKeepsNil(FixDeleteStep(T, x).T, FixDeleteStep(T, x).x)
       ELSE TRUE

\* the sentinel is intact all through insert(data)
InsertKeepsNil(T, data) == FixInsertKeepsNil(Hang(T, data), NewId(data))

\* the sentinel is intact all through _delete_node(z)
DeleteKeepsNil(T, z) ==
    /\ NilIntact(Detach(T, z).T)
    /\ Detach(T, z).y_original_color = FALSE =>
          FixDeleteKeepsNil(Detach(T, z).T, Detach(T, z).x)

\* C29: in every state, the intermediate steps of the fix-up walks
\* included, the sentinel NIL is black and its data is never assigned, and
\* after every completed insert or delete the root is black
C29_SentinelAndRoot ==
    /\ NilIntact(rbt)
    /\ rbt.nodes[rbt.root].color = FALSE
    /\ \A k \in RBKeys :
          IF k \in rblive THEN DeleteKeepsNil(rbt, FindNode(rbt, k))
          ELSE InsertKeepsNil(rbt, k)

\* a delete has taken a black node out of a tree of at least four keys and
\* left the sentinel in its place: _fix_delete has walked up from NIL, whose
\* parent link still tells where
C29_Witness ==
    /\ rblast = RBDone("delete", "none")
    /\ Cardinality(rblive) >= 3
    /\ rbt.nodes[NIL].parent \in rblive
    /\ \E k \in rblive :
          /\ Detach(rbt, FindNode(rbt, k)).x = NIL
          /\ Detach(rbt, FindNode(rbt, k)).y_original_color = FALSE
          /\ FindNode(rbt, k) # rbt.root

----------------------------------------------------------------------------
(* XORLinkedList: the addresses the traversals hand to _get_node            *)

\* the non-zero addresses next_ptr = prev_ptr ^ current.npx that the
\* traversal loop of insert, read and delete hands to _get_node
RECURSIVE WalkPtrs(_, _, _, _, _)
WalkPtrs(L, current, prev_ptr, count, position) ==
    IF current # None /\ count < position
    THEN IF Xor(prev_ptr, L.nodes[current].npx) = 0 THEN {}
         ELSE IF GetNode(L, Xor(prev_ptr, L.nodes[current].npx)) = Wild
         THEN {Xor(prev_ptr, L.nodes[current].npx)}
         ELSE {Xor(prev_ptr, L.nodes[current].npx)} \cup
              WalkPtrs(L, GetNode(L, Xor(prev_ptr, L.nodes[current].npx)),
                       GetPtr(current), count + 1, position)
    ELSE {}

\* the computed addresses read(position) dereferences
ReadPtrs(L, position) ==
    IF L.head = None THEN {} ELSE WalkPtrs(L, L.head, 0, 0, position)

\* the computed addresses insert(data, position) dereferences
InsertPtrs(L, position) ==
    IF L.head = None \/ position = 0 \/ position = None THEN {}
    ELSE WalkPtrs(L, L.head, 0, 0, position)

\* the computed addresses delete(position) dereferences: those of the
\* traversal and the successor's, lines 175 to 178 and 199 to 211
DeletePtrs(L, position) ==
    IF L.head = None THEN {}
    ELSE IF position = 0 THEN {L.nodes[L.head].npx} \ {0}
    ELSE WalkPtrs(L, L.head, 0, 0, position) \cup
         (IF Walk(L, L.head, 0, 0, position).out = "none"
          THEN {Xor(Walk(L, L.head, 0, 0, position).prev_ptr,
                    L.nodes[Walk(L, L.head, 0, 0, position).current].npx)}
               \ {0}
          ELSE {})

\* C30: in every reachable state, every non-zero address that the traversal
\* of an insert, a read or a delete computes and dereferences is the address
\* of a node that _nodes retains and that is linked in the list; none is the
\* address of a removed node or of no node
C30_ComputedAddresses ==
    Running =>
       \A p \in Positions :
          \A ptr \in ReadPtrs(xl, p) \cup InsertPtrs(xl, p)
                        \cup DeletePtrs(xl, p) :
             /\ ptr \in xl.keep
             /\ \E j \in 1..Len(xseq) : xseq[j] = ptr

----------------------------------------------------------------------------
(* XORLinkedList: the end pointers                                          *)

\* position p is the last one the forward traversal from head reaches
LastPosition(L, p) ==
    /\ Walk(L, L.head, 0, 0, p).out = "none"
    /\ Walk(L, L.head, 0, 0, p + 1).out = "PositionOutOfRange"

\* tail is the last node the forward traversal from head reaches, and its
\* combined field is the address of the node before it, 0 if there is none
TailIsLast(L) ==
    \E p \in Positions :
       /\ LastPosition(L, p)
       /\ Walk(L, L.head, 0, 0, p).current = L.tail
       /\ L.nodes[L.tail].npx = Walk(L, L.head, 0, 0, p).prev_ptr

\* C31: in every reachable state head is absent exactly when tail is
\* absent; otherwise head is the node at position 0, tail is the last node
\* the forward traversal from head reaches and the tail's combined field is
\* the address of its predecessor (0 if it is the head too); so a value
\* appended with insert(v) is found by some read
C31_EndPointers ==
    /\ [](Running =>
            /\ (xl.head = None) <=> (xl.tail = None)
            /\ xl.head # None =>
                  /\ xseq # <<>> /\ xl.head = xseq[1]
                  /\ TailIsLast(xl))
    /\ [][\A v \in Values, a \in Addr :
             (InsertXL(v, None, a) /\ xlast'.outcome = "none") =>
                \E p \in Positions : Returns(xl', p, v)]_vars

----------------------------------------------------------------------------
(* The state machine: a RedBlackTree into which equal keys are inserted     *)

\* the keys the callers insert more than once, and how many copies of a key
\* and how many nodes in all they let the tree hold
DupKeys == {7, 10, 18}
MaxCopies == 3
MaxNodes == 5

\* the entries of `rblive` here: <<k, j>> for the j-th live copy of key k
Copies(entries, k) == Cardinality({e \in entries : e[1] = k})

\* the identity of the next Node object: the methods compare nodes by
\* identity only, so which free identity the object gets changes nothing
FreshId(T) ==
    CHOOSE i \in 1..(MaxNodes + 1) :
       /\ i \notin DOMAIN T.nodes
       /\ \A j \in 1..(i - 1) : j \in DOMAIN T.nodes

\* tree.insert(k), of a key the tree may hold already
InsertDup(k) ==
    /\ Copies(rblive, k) < MaxCopies
    /\ Cardinality(rblive) < MaxNodes
    /\ rbt' = RBInsertAs(rbt, k, FreshId(rbt))
    /\ rblive' = rblive \cup {<<k, Copies(rblive, k) + 1>>}
    /\ rblast' = RBDone("insert", "none")
    /\ UNCHANGED <<rbscen, btVars, xlVars>>

\* tree.delete(k), of any key
DeleteDup(k) ==
    /\ rbt' = RBDelete(rbt, k).tree
    /\ rblive' = IF RBDelete(rbt, k).err = "none"
                 THEN rblive \ {<<k, Copies(rblive, k)>>}
                 ELSE rblive
    /\ rblast' = RBDone("delete", RBDelete(rbt, k).err)
    /\ UNCHANGED <<rbscen, btVars, xlVars>>

NextRBDup ==
    \/ \E k \in DupKeys : InsertDup(k)
    \/ \E k \in DupKeys : DeleteDup(k)
    \/ \E k \in DupKeys : ReadRB(k)

SpecRBDup == InitRB /\ [][NextRBDup]_vars

\* the nodes of the tree that hold data
NodesOf(T, data) == {n \in Subtree(T, T.root) : T.nodes[n].data = data}

\* insert(data) hangs the new node in the right subtree of every node
\* above it that holds data
PlacedRight(T, data, node) ==
    \A n \in NodesOf(HangAs(T, data, node), data) \ {node} :
       node \in Subtree(HangAs(T, data, node), n) =>
          node \in Subtree(HangAs(T, data, node),
                           HangAs(T, data, node).nodes[n].right)

\* C32: equal keys are kept as separate nodes, an equal key is placed in
\* the right subtree, read(k) is true exactly while fewer successful deletes
\* of k than inserts of k were made, and the root is black, no red node has
\* a red child and all paths hold the same number of black nodes throughout
C32_Duplicates ==
    /\ \A k \in DupKeys :
          /\ Cardinality(NodesOf(rbt, k)) = Copies(rblive, k)
          /\ RBRead(rbt, k) <=> (Copies(rblive, k) > 0)
          /\ PlacedRight(rbt, k, FreshId(rbt))
    /\ rbt.nodes[rbt.root].color = FALSE
    /\ NoRedRed(rbt)
    /\ Cardinality(BlackCounts(rbt, rbt.root)) = 1

\* a copy of a key was deleted and two more copies of it are in the tree,
\* one of them in the left subtree of the other
C32_Witness ==
    /\ rblast = RBDone("delete", "none")
    /\ \E k \in DupKeys :
          /\ Copies(rblive, k) = 2
          /\ \E n \in NodesOf(rbt, k) :
                NodesOf(rbt, k) \cap Subtree(rbt, rbt.nodes[n].left) # {}

----------------------------------------------------------------------------
(* RedBlackTree: the parent links                                           *)

\* n.parent is a node of the tree, and n is its left or its right child
ParentNames(T, n) ==
    /\ T.nodes[n].parent \in Subtree(T, T.root)
    /\ \/ T.nodes[T.nodes[n].parent].left = n
       \/ T.nodes[T.nodes[n].parent].right = n

\* the node whose child slot x = NIL takes when _delete_node(z) removes z:
\* z.parent, or y for y = _minimum(z.right) a child of z, or else y.parent
SlotOwner(T, z) ==
    IF T.nodes[z].left = NIL THEN T.nodes[z].parent
    ELSE IF T.nodes[Minimum(T, T.nodes[z].right)].parent = z
    THEN Minimum(T, T.nodes[z].right)
    ELSE T.nodes[Minimum(T, T.nodes[z].right)].parent

\* the tree when the first pass of the loop of _fix_delete(x) has dealt with
\* a red sibling, lines 222 to 227 and 239 to 244
RedSiblingDone(T, x) ==
    LET p == T.nodes[x].parent
    IN  IF x = T.nodes[p].left
        THEN IF T.nodes[T.nodes[p].right].color = TRUE
             THEN LeftRotate(
                    [T EXCEPT !.nodes[T.nodes[p].right].color = FALSE,
                              !.nodes[p].color = TRUE],
                    p)
             ELSE T
        ELSE IF T.nodes[T.nodes[p].left].color = TRUE
             THEN RightRotate(
                    [T EXCEPT !.nodes[T.nodes[p].left].color = FALSE,
                              !.nodes[p].color = TRUE],
                    p)
             ELSE T

\* the tree when the pass has then dealt with a black sibling whose far
\* child is black and whose near child is red, lines 232 to 236 and 249 to
\* 253
NearNephewDone(T, x) ==
    LET p == T.nodes[x].parent
        w == IF x = T.nodes[p].left THEN T.nodes[p].right
             ELSE T.nodes[p].left
    IN  IF x = T.nodes[p].left
        THEN IF /\ T.nodes[T.nodes[w].left].color = TRUE
                /\ T.nodes[T.nodes[w].right].color = FALSE
             THEN RightRotate(
                    [T EXCEPT !.nodes[T.nodes[w].left].color = FALSE,
                              !.nodes[w].color = TRUE],
                    w)
             ELSE T
        ELSE IF /\ T.nodes[T.nodes[w].right].color = TRUE
                /\ T.nodes[T.nodes[w].left].color = FALSE
             THEN LeftRotate(
                    [T EXCEPT !.nodes[T.nodes[w].right].color = FALSE,
                              !.nodes[w].color = TRUE],
                    w)
             ELSE T

\* _delete_node(z) calls _fix_delete on the sentinel, and the loop runs
WalksFromNil(T, z) ==
    /\ Detach(T, z).x = NIL
    /\ Detach(T, z).y_original_color = FALSE
    /\ Detach(T, z).T.root # NIL

\* where _delete_node(z) walks up from the sentinel: NIL.parent is the node
\* whose slot NIL has taken, whatever NIL.parent held before the call, and
\* NIL is still a child of NIL.parent at every read of x.parent in the pass
SentinelParentSet(T, z) ==
    WalksFromNil(T, z) =>
       /\ Detach(T, z).T.nodes[NIL].parent = SlotOwner(T, z)
       /\ \A stale \in {None, Dead} :
             Detach(SetParent(T, NIL, stale), z).T = Detach(T, z).T
       /\ ParentNames(Detach(T, z).T, NIL)
       /\ ParentNames(RedSiblingDone(Detach(T, z).T, NIL), NIL)
       /\ ParentNames(NearNephewDone(RedSiblingDone(Detach(T, z).T, NIL),
                                     NIL), NIL)
       /\ RedSiblingDone(Detach(T, z).T, NIL).nodes[NIL].parent
             = SlotOwner(T, z)
       /\ NearNephewDone(RedSiblingDone(Detach(T, z).T, NIL),
                         NIL).nodes[NIL].parent = SlotOwner(T, z)

\* C33: after every completed insert or delete the root's parent is None
\* and every other node's parent is a node of the tree one of whose children
\* it is; and whenever _fix_delete reads x.parent for the sentinel x, that
\* reference was set earlier in the same delete and names the node whose
\* child slot x occupies
C33_ParentLinks ==
    /\ rbt.nodes[rbt.root].parent = None
    /\ \A n \in Subtree(rbt, rbt.root) \ {rbt.root} : ParentNames(rbt, n)
    /\ \A k \in rblive : SentinelParentSet(rbt, FindNode(rbt, k))

\* a delete has left NIL.parent referring to the node it removed, and a
\* delete that can be called next walks up from the sentinel
C33_Witness ==
    /\ rblast = RBDone("delete", "none")
    /\ rbt.nodes[NIL].parent = Dead
    /\ \E k \in rblive : WalksFromNil(rbt, FindNode(rbt, k))

====
